---- MODULE Spec2Model ----
(***************************************************************************)
(* Model of src/app/main.py: the topic store (topics), the subscriber map  *)
(* (subscribers) and the asyncio handlers that work on them.  The handlers *)
(* are coroutines on one event loop: the code between two awaits runs      *)
(* atomically, and any other coroutine may run at an await.  Every action  *)
(* below is one such atomic stretch of a handler.                          *)
(***************************************************************************)
EXTENDS Naturals, Sequences, FiniteSets

\* ---------------------------------------------------------------- bounds
\* Total number of HTTP requests (create / update / delete) ever started.
MaxOps == 3

\* Topic names the clients use; "cp" is the seeded, protected topic.
Names == {"cp", "t"}
\* Values the clients send; "A" is a legal value of "cp", "x" is not.
Values == {"A", "x"}
\* WebSocket connections, named in the order in which they connect (each
\* connects once).
HandleSeq == <<"h1", "h2">>
Handles == {HandleSeq[i] : i \in 1..Len(HandleSeq)}
\* HTTP request slots that can be in flight at the same time; a new request
\* takes the first free slot.
ProcSeq == <<"p1", "p2">>
Procs == {ProcSeq[i] : i \in 1..Len(ProcSeq)}

\* Python's None: what dict.get returns for a missing key.
None == "None"

VARIABLES
    topics,       \* main.py:14  dict name -> value
    subscribers,  \* main.py:15  dict name -> list of websockets
    req,          \* per HTTP request slot: the handler's local state
    ws,           \* per websocket: position of its subscribeTopic coroutine
    closed,       \* per websocket: close() has been issued on it
    inbox,        \* per websocket: payloads delivered by send_text, in order
    written,      \* per name: every value topics[name] was set to, in order
                  \* (None for a pop)
    nops          \* number of HTTP requests started

vars == <<topics, subscribers, req, ws, closed, inbox, written, nops>>

\* ------------------------------------------------------------- helpers
Range(s) == {s[i] : i \in 1..Len(s)}


\* Put as it would be if the assignment replaced the dict by a new one holding
\* the one entry.
PutOnly(d, k, v) == [x \in {k} |-> v]

\* dict[k] = v
Put(d, k, v) == [x \in DOMAIN d \cup {k} |-> IF x = k THEN v ELSE d[x]]
\* dict.pop(k) for a present key
\* Pop as it would be if it emptied the dict (clear() in place of pop(k)).
PopAll(d, k) == [x \in {} |-> d[x]]

Pop(d, k) == [x \in DOMAIN d \ {k} |-> d[x]]
\* dict.get(k)
Get(d, k) == IF k \in DOMAIN d THEN d[k] ELSE None

\* list.remove(h): drops the first occurrence of h (h is in s).
RECURSIVE Remove(_, _)
Remove(s, h) ==
    IF s = <<>> THEN <<>>
    ELSE IF Head(s) = h THEN Tail(s)
    ELSE <<Head(s)>> \o Remove(Tail(s), h)


\* CpValues as it would be with one more value let through by main.py:203.
CpValuesWide == {"A", "B", "C", "D", "off", "x"}

\* The legal values of the protected topic (main.py:203).
CpValues == {"A", "B", "C", "D", "off"}

\* A request slot with no handler running.
IdleReq ==
    [op |-> "none", pc |-> "idle", topic |-> None, value |-> None,
     idx |-> 0, live |-> FALSE, frozen |-> <<>>, result |-> None,
     log |-> <<>>, reg |-> {}, wpos |-> 0]

\* The list object a running for-loop iterates: the list stored in
\* subscribers while that object is still in the map, else the object as it
\* was when deleteTopic popped it from the map (nothing mutates it later).
IterList(r) == IF r.live THEN subscribers[r.topic] ELSE r.frozen

\* Outcomes of awaiting send_text(payload) on websocket h: delivered, raised,
\* or not returning while the connection stays up.  Starlette raises on a
\* send after close().
SendOutcomes(h) ==
    IF closed[h] \/ ws[h].state \in {"done", "error"}
    THEN {"fail"}
    ELSE {"ok", "fail", "block"}

\* Outcomes of awaiting close() on websocket h: closed, or raised.
\* Starlette raises on a second close().
CloseOutcomes(h) ==
    IF closed[h] THEN {"fail"} ELSE {"ok", "fail"}

\* ---------------------------------------------------------------- Init
Init ==
    /\ topics = [n \in {"cp"} |-> "off"]
    /\ subscribers = [n \in {} |-> <<>>]
    /\ req = [p \in Procs |-> IdleReq]
    /\ ws = [h \in Handles |-> [state |-> "idle", topic |-> None, seen |-> 0]]
    /\ closed = [h \in Handles |-> FALSE]
    /\ inbox = [h \in Handles |-> <<>>]
    /\ written = [n \in Names |-> IF n = "cp" THEN <<"off">> ELSE <<>>]
    /\ nops = 0

\* ------------------------------------------------------- HTTP handlers
\* Slot p is the first free request slot.
FreeSlot(p) ==
    \E i \in 1..Len(ProcSeq) :
        /\ ProcSeq[i] = p
        /\ req[p].pc = "idle"
        /\ \A j \in 1..(i - 1) : req[ProcSeq[j]].pc # "idle"

\* Websocket h is the next connection to arrive.
NextHandle(h) ==
    \E i \in 1..Len(HandleSeq) :
        /\ HandleSeq[i] = h
        /\ ws[h].state = "idle"
        /\ \A j \in 1..(i - 1) : ws[HandleSeq[j]].state # "idle"

\* The handler has returned or raised with outcome res; lst is the list its
\* loop was iterating, as it is now (<<>> when the handler had no loop).
Done(r, res, lst) ==
    [r EXCEPT !.pc = "done", !.result = res, !.live = FALSE,
              !.frozen = lst, !.idx = 0]


\* createTopic as it would be without the check of main.py:161-163: creating
\* an existing topic overwrites its value.
createTopicUpsert(p, n, v, hasKeys) ==
    /\ FreeSlot(p)
    /\ nops < MaxOps
    /\ nops' = nops + 1
    /\ LET r == [IdleReq EXCEPT !.op = "create", !.topic = n, !.value = v] IN
       IF ~hasKeys
       THEN /\ req' = [req EXCEPT ![p] = Done(r, "BadRequest", <<>>)]
            /\ UNCHANGED <<topics, written>>
       ELSE /\ topics' = Put(topics, n, v)
            /\ written' = [written EXCEPT ![n] = Append(@, v)]
            /\ req' = [req EXCEPT ![p] = Done(r, "ok", <<>>)]
    /\ UNCHANGED <<subscribers, ws, closed, inbox>>


\* main.py:122-126: the value of a topic, or 404.  It changes nothing and has
\* no await, so it is an operator on the state and not an action.
getIndividualTopic(topic) ==
    IF topic \notin DOMAIN topics THEN "NotFound" ELSE Get(topics, topic)

\* main.py:153-167.  The only await precedes every access to topics, so the
\* rest of the handler is one atomic step.
createTopic(p, n, v, hasKeys) ==
    /\ FreeSlot(p)
    /\ nops < MaxOps
    /\ nops' = nops + 1
    /\ LET r == [IdleReq EXCEPT !.op = "create", !.topic = n, !.value = v] IN
       IF ~hasKeys
       THEN /\ req' = [req EXCEPT ![p] = Done(r, "BadRequest", <<>>)]
            /\ UNCHANGED <<topics, written>>
       ELSE IF n \in DOMAIN topics
       THEN /\ req' = [req EXCEPT ![p] = Done(r, "AlreadyExists", <<>>)]
            /\ UNCHANGED <<topics, written>>
       ELSE /\ topics' = Put(topics, n, v)
            /\ written' = [written EXCEPT ![n] = Append(@, v)]
            /\ req' = [req EXCEPT ![p] = Done(r, "ok", <<>>)]
    /\ UNCHANGED <<subscribers, ws, closed, inbox>>

\* FanOut as it would be without the try/except of main.py:215-218: a send
\* that raises ends the handler with an error.
FanOutAbort(p, r, lst, store) ==
    IF r.idx < Len(lst)
    THEN LET subscriber == lst[r.idx + 1]
             payload == Get(store, r.topic)
         IN \E o \in SendOutcomes(subscriber) :
              LET r2 == [r EXCEPT !.idx = r.idx + 1,
                                  !.pc = IF o = "block" THEN "blocked" ELSE "sending",
                                  !.log = Append(@, [h |-> subscriber,
                                                     val |-> payload,
                                                     res |-> o])]
              IN /\ req' = [req EXCEPT ![p] =
                        IF o = "fail" THEN Done(r2, "error", lst) ELSE r2]
                 /\ inbox' = IF o = "ok"
                             THEN [inbox EXCEPT ![subscriber] = Append(@, payload)]
                             ELSE inbox
    ELSE /\ req' = [req EXCEPT ![p] = Done(r, "ok", lst)]
         /\ inbox' = inbox

\* main.py:214-218, one turn of the for-loop up to its await: next() on the
\* list iterator, then send_text(topics.get(topic)) inside try/except.
\* r is the handler's state with r.idx entries already iterated, lst the list
\* object iterated and store the topics dict at this moment.
FanOut(p, r, lst, store) ==
    IF r.idx < Len(lst)
    THEN LET subscriber == lst[r.idx + 1]
             payload == Get(store, r.topic)
         IN \E o \in SendOutcomes(subscriber) :
              /\ req' = [req EXCEPT ![p] =
                     [r EXCEPT !.idx = r.idx + 1,
                               !.pc = IF o = "block" THEN "blocked" ELSE "sending",
                               !.log = Append(@, [h |-> subscriber,
                                                  val |-> payload,
                                                  res |-> o])]]
              /\ inbox' = IF o = "ok"
                          THEN [inbox EXCEPT ![subscriber] = Append(@, payload)]
                          ELSE inbox
    ELSE /\ req' = [req EXCEPT ![p] = Done(r, "ok", lst)]
         /\ inbox' = inbox


\* updateTopic as it would be without the check of main.py:207-209: an update
\* of an absent topic writes it.
updateTopicUpsert(p, topic, newValue, hasKeys) ==
    /\ FreeSlot(p)
    /\ nops < MaxOps
    /\ nops' = nops + 1
    /\ LET r == [IdleReq EXCEPT !.op = "update", !.topic = topic,
                                !.value = newValue]
       IN
       IF ~hasKeys
       THEN /\ req' = [req EXCEPT ![p] = Done(r, "BadRequest", <<>>)]
            /\ UNCHANGED <<topics, written, inbox>>
       ELSE IF topic = "cp" /\ newValue \notin CpValues
       THEN /\ req' = [req EXCEPT ![p] = Done(r, "InvalidValue", <<>>)]
            /\ UNCHANGED <<topics, written, inbox>>
       ELSE /\ topics' = Put(topics, topic, newValue)
            /\ written' = [written EXCEPT ![topic] = Append(@, newValue)]
            /\ IF topic \in DOMAIN subscribers
               THEN FanOut(p, [r EXCEPT !.live = TRUE,
                                        !.reg = Range(subscribers[topic]),
                                        !.wpos = Len(written'[topic])],
                           subscribers[topic], topics')
               ELSE /\ req' = [req EXCEPT ![p] =
                           Done([r EXCEPT !.wpos = Len(written'[topic])],
                                "ok", <<>>)]
                    /\ inbox' = inbox
    /\ UNCHANGED <<subscribers, ws, closed>>

\* main.py:195-216: validation, the store write and the loop's first turn.
updateTopic(p, topic, newValue, hasKeys) ==
    /\ FreeSlot(p)
    /\ nops < MaxOps
    /\ nops' = nops + 1
    /\ LET r == [IdleReq EXCEPT !.op = "update", !.topic = topic,
                                !.value = newValue]
       IN
       IF ~hasKeys
       THEN /\ req' = [req EXCEPT ![p] = Done(r, "BadRequest", <<>>)]
            /\ UNCHANGED <<topics, written, inbox>>
       ELSE IF topic = "cp" /\ newValue \notin CpValues
       THEN /\ req' = [req EXCEPT ![p] = Done(r, "InvalidValue", <<>>)]
            /\ UNCHANGED <<topics, written, inbox>>
       ELSE IF topic \notin DOMAIN topics
       THEN /\ req' = [req EXCEPT ![p] = Done(r, "NotFound", <<>>)]
            /\ UNCHANGED <<topics, written, inbox>>
       ELSE /\ topics' = Put(topics, topic, newValue)
            /\ written' = [written EXCEPT ![topic] = Append(@, newValue)]
            /\ IF topic \in DOMAIN subscribers
               THEN FanOut(p, [r EXCEPT !.live = TRUE,
                                        !.reg = Range(subscribers[topic]),
                                        !.wpos = Len(written'[topic])],
                           subscribers[topic], topics')
               ELSE /\ req' = [req EXCEPT ![p] =
                           Done([r EXCEPT !.wpos = Len(written'[topic])],
                                "ok", <<>>)]
                    /\ inbox' = inbox
    /\ UNCHANGED <<subscribers, ws, closed>>

\* updateTopicSend as it would be if the except branch of main.py:217-218
\* unregistered the websocket whose send raised.
updateTopicSendUnsub(p) ==
    /\ req[p].op = "update"
    /\ req[p].pc = "sending"
    /\ FanOut(p, req[p], IterList(req[p]), topics)
    /\ subscribers' =
          LET log == req'[p].log
              topic == req[p].topic
          IN IF /\ Len(log) > Len(req[p].log)
                /\ log[Len(log)].res = "fail"
                /\ topic \in DOMAIN subscribers
             THEN [subscribers EXCEPT ![topic] = Remove(@, log[Len(log)].h)]
             ELSE subscribers
    /\ UNCHANGED <<topics, ws, closed, written, nops>>

\* main.py:214-220: the pending send_text returned or raised (the exception
\* is caught); the loop takes its next turn or the handler returns.
updateTopicSend(p) ==
    /\ req[p].op = "update"
    /\ req[p].pc = "sending"
    /\ FanOut(p, req[p], IterList(req[p]), topics)
    /\ UNCHANGED <<topics, subscribers, ws, closed, written, nops>>

\* main.py:215-218: a send_text that was not returning raises once its
\* connection is gone (the client left or close() was issued); the exception
\* is caught and the loop goes on.
updateTopicSendRaise(p) ==
    /\ req[p].op = "update"
    /\ req[p].pc = "blocked"
    /\ LET subscriber == req[p].log[Len(req[p].log)].h
           r == [req[p] EXCEPT !.log[Len(req[p].log)].res = "fail"]
       IN /\ closed[subscriber] \/ ws[subscriber].state \in {"done", "error"}
          /\ FanOut(p, r, IterList(r), topics)
    /\ UNCHANGED <<topics, subscribers, ws, closed, written, nops>>

\* subscribers.pop(topic) takes the list object out of the map: the loops
\* still iterating it keep the object, which no one can reach any more.
Freeze(rq, n, lst) ==
    [q \in Procs |->
        IF rq[q].live /\ rq[q].topic = n
        THEN [rq[q] EXCEPT !.live = FALSE, !.frozen = lst]
        ELSE rq[q]]

\* main.py:257-259, one turn of the for-loop up to its await: next(), then
\* close() with no try/except around it; after the loop, subscribers.pop.
Sweep(p, r, lst) ==
    IF r.idx < Len(lst)
    THEN LET subscriber == lst[r.idx + 1] IN
         \E o \in CloseOutcomes(subscriber) :
            LET r2 == [r EXCEPT !.idx = r.idx + 1, !.pc = "closing",
                                !.log = Append(@, [h |-> subscriber,
                                                   val |-> None,
                                                   res |-> o])]
            IN /\ closed' = [closed EXCEPT ![subscriber] = TRUE]
               /\ req' = IF o = "ok"
                         THEN [req EXCEPT ![p] = r2]
                         ELSE [req EXCEPT ![p] = Done(r2, "error", lst)]
               /\ subscribers' = subscribers
    ELSE /\ closed' = closed
         /\ IF r.topic \in DOMAIN subscribers
            THEN /\ subscribers' = Pop(subscribers, r.topic)
                 /\ req' = [Freeze(req, r.topic, subscribers[r.topic])
                               EXCEPT ![p] = Done(r, "ok", lst)]
            ELSE /\ subscribers' = subscribers
                 /\ req' = [req EXCEPT ![p] = Done(r, "error", lst)]


\* deleteTopic as it would be without the check of main.py:245-247: "cp" is
\* deleted like any other topic.
deleteTopicUnguarded(p, topic) ==
    /\ FreeSlot(p)
    /\ nops < MaxOps
    /\ nops' = nops + 1
    /\ LET r == [IdleReq EXCEPT !.op = "delete", !.topic = topic] IN
       IF topic \notin DOMAIN topics
       THEN /\ req' = [req EXCEPT ![p] = Done(r, "NotFound", <<>>)]
            /\ UNCHANGED <<topics, written, subscribers, closed>>
       ELSE /\ topics' = Pop(topics, topic)
            /\ written' = [written EXCEPT ![topic] = Append(@, None)]
            /\ IF topic \in DOMAIN subscribers
               THEN Sweep(p, [r EXCEPT !.live = TRUE,
                                       !.reg = Range(subscribers[topic]),
                                       !.wpos = Len(written'[topic])],
                          subscribers[topic])
               ELSE /\ req' = [req EXCEPT ![p] =
                           Done([r EXCEPT !.wpos = Len(written'[topic])],
                                "ok", <<>>)]
                    /\ UNCHANGED <<subscribers, closed>>
    /\ UNCHANGED <<ws, inbox>>

\* deleteTopic as it would be without the test of main.py:256: the sweep and
\* subscribers.pop run whether or not the map has an entry, and the pop of a
\* missing key raises.
deleteTopicPopAlways(p, topic) ==
    /\ FreeSlot(p)
    /\ nops < MaxOps
    /\ nops' = nops + 1
    /\ LET r == [IdleReq EXCEPT !.op = "delete", !.topic = topic] IN
       IF topic = "cp"
       THEN /\ req' = [req EXCEPT ![p] = Done(r, "Forbidden", <<>>)]
            /\ UNCHANGED <<topics, written, subscribers, closed>>
       ELSE IF topic \notin DOMAIN topics
       THEN /\ req' = [req EXCEPT ![p] = Done(r, "NotFound", <<>>)]
            /\ UNCHANGED <<topics, written, subscribers, closed>>
       ELSE /\ topics' = Pop(topics, topic)
            /\ written' = [written EXCEPT ![topic] = Append(@, None)]
            /\ IF topic \in DOMAIN subscribers
               THEN Sweep(p, [r EXCEPT !.live = TRUE,
                                       !.reg = Range(subscribers[topic]),
                                       !.wpos = Len(written'[topic])],
                          subscribers[topic])
               ELSE /\ req' = [req EXCEPT ![p] =
                           Done([r EXCEPT !.wpos = Len(written'[topic])],
                                "error", <<>>)]
                    /\ UNCHANGED <<subscribers, closed>>
    /\ UNCHANGED <<ws, inbox>>

\* main.py:245-258: the checks, topics.pop and the sweep's first turn.
deleteTopic(p, topic) ==
    /\ FreeSlot(p)
    /\ nops < MaxOps
    /\ nops' = nops + 1
    /\ LET r == [IdleReq EXCEPT !.op = "delete", !.topic = topic] IN
       IF topic = "cp"
       THEN /\ req' = [req EXCEPT ![p] = Done(r, "Forbidden", <<>>)]
            /\ UNCHANGED <<topics, written, subscribers, closed>>
       ELSE IF topic \notin DOMAIN topics
       THEN /\ req' = [req EXCEPT ![p] = Done(r, "NotFound", <<>>)]
            /\ UNCHANGED <<topics, written, subscribers, closed>>
       ELSE /\ topics' = Pop(topics, topic)
            /\ written' = [written EXCEPT ![topic] = Append(@, None)]
            /\ IF topic \in DOMAIN subscribers
               THEN Sweep(p, [r EXCEPT !.live = TRUE,
                                       !.reg = Range(subscribers[topic]),
                                       !.wpos = Len(written'[topic])],
                          subscribers[topic])
               ELSE /\ req' = [req EXCEPT ![p] =
                           Done([r EXCEPT !.wpos = Len(written'[topic])],
                                "ok", <<>>)]
                    /\ UNCHANGED <<subscribers, closed>>
    /\ UNCHANGED <<ws, inbox>>

\* main.py:257-261: the pending close() returned; next turn or the pop.
deleteTopicClose(p) ==
    /\ req[p].op = "delete"
    /\ req[p].pc = "closing"
    /\ Sweep(p, req[p], IterList(req[p]))
    /\ UNCHANGED <<topics, ws, inbox, written, nops>>

\* The response of a finished handler is out; the slot takes a new request.
Return(p) ==
    /\ req[p].pc = "done"
    /\ req' = [req EXCEPT ![p] = IdleReq]
    /\ UNCHANGED <<topics, subscribers, ws, closed, inbox, written, nops>>

\* -------------------------------------------------- WebSocket handler
\* subscribeTopic as it would be without the existence check: every connection
\* is accepted.
subscribeTopicOpen(h, topic) ==
    /\ NextHandle(h)
    /\ ws' = [ws EXCEPT ![h].state = "accepting", ![h].topic = topic]
    /\ closed' = closed
    /\ UNCHANGED <<topics, subscribers, req, inbox, written, nops>>

\* main.py:275-280: the existence check, then close() or accept().
subscribeTopic(h, topic) ==
    /\ NextHandle(h)
    /\ IF topic \notin DOMAIN topics
       THEN /\ ws' = [ws EXCEPT ![h].state = "rejected", ![h].topic = topic]
            /\ closed' = [closed EXCEPT ![h] = TRUE]
       ELSE /\ ws' = [ws EXCEPT ![h].state = "accepting", ![h].topic = topic]
            /\ closed' = closed
    /\ UNCHANGED <<topics, subscribers, req, inbox, written, nops>>

\* main.py:280-286: accept() returned; the websocket is registered and the
\* coroutine waits in receive_text (incoming messages change nothing).
subscribeTopicAccept(h) ==
    /\ ws[h].state = "accepting"
    /\ LET topic == ws[h].topic
           lst == IF topic \in DOMAIN subscribers
                  THEN subscribers[topic] ELSE <<>>
       IN /\ subscribers' = Put(subscribers, topic, Append(lst, h))
          /\ ws' = [ws EXCEPT ![h].state = "receiving",
                              ![h].seen = Len(written[topic])]
    /\ UNCHANGED <<topics, req, closed, inbox, written, nops>>

\* main.py:287-289: receive_text raised WebSocketDisconnect (the client left,
\* or the server closed the connection).  list.remove raises ValueError when
\* the websocket is not in a non-empty list.
subscribeTopicDisconnect(h) ==
    /\ ws[h].state = "receiving"
    /\ LET topic == ws[h].topic
           lst == IF topic \in DOMAIN subscribers
                  THEN subscribers[topic] ELSE <<>>
       IN IF lst # <<>>
          THEN IF h \in Range(lst)
               THEN /\ subscribers' = [subscribers EXCEPT ![topic] = Remove(lst, h)]
                    /\ ws' = [ws EXCEPT ![h].state = "done"]
               ELSE /\ subscribers' = subscribers
                    /\ ws' = [ws EXCEPT ![h].state = "error"]
          ELSE /\ subscribers' = subscribers
               /\ ws' = [ws EXCEPT ![h].state = "done"]
    /\ UNCHANGED <<topics, req, closed, inbox, written, nops>>

\* ---------------------------------------------------------------- Next
Next ==
    \/ \E p \in Procs, n \in Names, v \in Values, k \in BOOLEAN :
          createTopic(p, n, v, k)
    \/ \E p \in Procs, n \in Names, v \in Values, k \in BOOLEAN :
          updateTopic(p, n, v, k)
    \/ \E p \in Procs : updateTopicSend(p)
    \/ \E p \in Procs : updateTopicSendRaise(p)
    \/ \E p \in Procs, n \in Names : deleteTopic(p, n)
    \/ \E p \in Procs : deleteTopicClose(p)
    \/ \E p \in Procs : Return(p)
    \/ \E h \in Handles, n \in Names : subscribeTopic(h, n)
    \/ \E h \in Handles : subscribeTopicAccept(h)
    \/ \E h \in Handles : subscribeTopicDisconnect(h)

Spec == Init /\ [][Next]_vars

\* Fairness of the event loop: a handler whose await has returned is resumed.
\* Nothing forces a client to send a request, connect or disconnect.
FairSpec ==
    /\ Spec
    /\ \A p \in Procs : WF_vars(updateTopicSend(p))
    /\ \A p \in Procs : WF_vars(updateTopicSendRaise(p))
    /\ \A p \in Procs : WF_vars(deleteTopicClose(p))
    /\ \A p \in Procs : WF_vars(Return(p))
    /\ \A h \in Handles : WF_vars(subscribeTopicAccept(h))

\* ------------------------------------------------------------- claims
\* The list registered for n in the subscriber map (empty when no entry).
ListIn(subs, n) == IF n \in DOMAIN subs THEN subs[n] ELSE <<>>
Registered(n) == ListIn(subscribers, n)

\* The websockets the handler in record r has called send_text / close on.
Tried(r) == {r.log[i].h : i \in 1..Len(r.log)}

\* No handler is in the middle of its loop.
Quiescent == \A p \in Procs : req[p].pc \in {"idle", "done"}

\* C1: subscribeTopic(n, h) racing deleteTopic(n): once the delete has
\* returned success and h's subscribe has registered h, with n absent from
\* the store and no other delete of n sweeping, h has been issued a close.
C1_SubscribeDeleteResolved ==
    \A p \in Procs, h \in Handles :
        ( /\ req[p].op = "delete"
          /\ req[p].pc = "done"
          /\ req[p].result = "ok"
          /\ ws[h].topic = req[p].topic
          /\ ws[h].state = "receiving"
          /\ h \in Range(Registered(req[p].topic))
          /\ req[p].topic \notin DOMAIN topics
          /\ \A q \in Procs : ~(req[q].op = "delete" /\ req[q].pc = "closing"
                                /\ req[q].topic = req[p].topic) )
        => closed[h]

\* C2: every name with an entry in the subscriber map is in the topic store.
C2_RegistryWithinStore == DOMAIN subscribers \subseteq DOMAIN topics

\* The finished successful updateTopic calls on n still in a request slot.
Updates(n) ==
    {p \in Procs : /\ req[p].op = "update"
                   /\ req[p].topic = n
                   /\ req[p].pc = "done"
                   /\ req[p].result = "ok"}

\* s has no value twice.
Distinct(s) == \A i, j \in 1..Len(s) : s[i] = s[j] => i = j

\* C3: concurrent successful updateTopic calls on n with pairwise distinct
\* values: a subscriber h of n that was registered before them, is still
\* connected and registered receives exactly the values written to the store
\* for n, in the order they were written.  (Stated for the runs in which no
\* send failed and no subscriber of n left during the updates, so that a
\* violation is one of ordering alone.)
C3_NotifyOrder ==
    \A n \in Names, h \in Handles :
        LET ups == SubSeq(written[n], ws[h].seen + 1, Len(written[n])) IN
        ( /\ Quiescent
          /\ n \in DOMAIN topics
          /\ ws[h].state = "receiving"
          /\ ws[h].topic = n
          /\ h \in Range(Registered(n))
          /\ ~closed[h]
          /\ Cardinality(Updates(n)) = Len(ups)
          /\ Len(ups) >= 2
          /\ Distinct(ups)
          /\ \A p \in Updates(n) : req[p].reg \subseteq Range(Registered(n))
          /\ \A p \in Updates(n) : \A i \in 1..Len(req[p].log) :
                req[p].log[i].res = "ok" )
        => inbox[h] = ups

\* C4: a successful updateTopic(n, v) has called send_text exactly once, with
\* v, on every websocket that was registered for n when the update was made
\* and is still registered when it returns.
C4_NotifyEveryRegistered ==
    [][\A p \in Procs :
          ( /\ req[p].pc # "done"
            /\ req'[p].pc = "done"
            /\ req'[p].op = "update"
            /\ req'[p].result = "ok" )
          => \A h \in req'[p].reg :
                h \in Range(ListIn(subscribers', req'[p].topic))
                => /\ Cardinality({i \in 1..Len(req'[p].log) :
                                      req'[p].log[i].h = h}) = 1
                   /\ \A i \in 1..Len(req'[p].log) :
                         req'[p].log[i].h = h
                         => req'[p].log[i].val = req'[p].value]_vars

\* C5: when deleteTopic(n) returns success, n has no entry in the subscriber
\* map and every websocket registered for n when the delete started has been
\* issued a close.
C5_DeleteClosesAll ==
    [][\A p \in Procs :
          ( /\ req[p].pc # "done"
            /\ req'[p].pc = "done"
            /\ req'[p].op = "delete"
            /\ req'[p].result = "ok" )
          => /\ req'[p].topic \notin DOMAIN subscribers'
             /\ \A h \in req'[p].reg : closed'[h]]_vars

\* C6: a close() that fails during the sweep of deleteTopic(n) does not keep
\* close() from the other websockets registered for n, nor n's registry entry
\* from being removed, and deleteTopic still succeeds.
C6_CloseFailureIsolated ==
    [][\A p \in Procs :
          ( /\ req[p].pc # "done"
            /\ req'[p].pc = "done"
            /\ req'[p].op = "delete"
            /\ \E i \in 1..Len(req'[p].log) : req'[p].log[i].res = "fail" )
          => /\ req'[p].result = "ok"
             /\ req'[p].topic \notin DOMAIN subscribers'
             /\ \A h \in req'[p].reg : closed'[h]]_vars

\* C7: a send_text that fails during the fan-out of a successful
\* updateTopic(n, v) does not abort it: the update returns success, the
\* failure handling leaves the store alone (it holds v unless n was written
\* again), and send_text has been called on every websocket registered for n
\* at the update (as long as none of them was taken out of the list during
\* the loop).
C7_SendFailureIsolated ==
    \A p \in Procs :
        ( /\ req[p].op = "update"
          /\ req[p].pc = "done"
          /\ \E i \in 1..Len(req[p].log) : req[p].log[i].res = "fail" )
        => /\ req[p].result = "ok"
           /\ Len(written[req[p].topic]) = req[p].wpos
              => Get(topics, req[p].topic) = req[p].value
           /\ req[p].reg \subseteq Range(req[p].frozen)
              => req[p].reg \subseteq Tried(req[p])

\* C7 happens: an update returned success with v in the store after the send
\* to one websocket failed and the send of v to another one succeeded.
C7_Witness ==
    \E p \in Procs, i, j \in 1..2 :
        /\ req[p].op = "update"
        /\ req[p].pc = "done"
        /\ req[p].result = "ok"
        /\ Len(req[p].log) = 2
        /\ req[p].log[i].res = "fail"
        /\ req[p].log[j].res = "ok"
        /\ req[p].log[j].h # req[p].log[i].h
        /\ req[p].log[j].val = req[p].value
        /\ Get(topics, req[p].topic) = req[p].value
        /\ inbox[req[p].log[j].h] = <<req[p].value>>

\* C8: the payload of every send_text is a value the store has recorded for
\* the topic, never an absent one.
C8_PayloadRecorded ==
    \A p \in Procs :
        req[p].op = "update"
        => \A i \in 1..Len(req[p].log) :
              /\ req[p].log[i].val # None
              /\ req[p].log[i].val \in Range(written[req[p].topic])

\* C9: when a send_text of updateTopic(n, v) never returns, send_text is
\* still eventually called on every other websocket registered for n (unless
\* it leaves first).
C9_BlockedSendIsolated ==
    \A p \in Procs, h \in Handles :
        ( /\ req[p].op = "update"
          /\ req[p].pc = "blocked"
          /\ h \in req[p].reg
          /\ h \notin Tried(req[p]) )
        ~> ( \/ h \in Tried(req[p])
             \/ h \notin Range(Registered(ws[h].topic)) )

\* C10: the disconnect of a websocket that is no longer in its topic's list
\* raises nothing and leaves the subscriber map as it is.
C10_DisconnectAbsentNoOp ==
    [][\A h \in Handles :
          ( /\ ws[h].state = "receiving"
            /\ ws'[h].state # "receiving"
            /\ h \notin Range(Registered(ws[h].topic)) )
          => /\ ws'[h].state = "done"
             /\ subscribers' = subscribers]_vars

\* C11: deleteTopic on the protected topic "cp" always fails with Forbidden,
\* whatever the subscriber state, and leaves the store, the subscriber map and
\* every websocket (none closed, none notified) as they were.
C11_ProtectedDeleteForbidden ==
    [][\A p \in Procs :
          ( /\ req[p].pc = "idle"
            /\ req'[p].op = "delete"
            /\ req'[p].topic = "cp" )
          => /\ req'[p].pc = "done"
             /\ req'[p].result = "Forbidden"
             /\ UNCHANGED <<topics, subscribers, closed, ws, inbox>>]_vars

\* C11 happens: a delete of "cp" was refused while "cp" had two subscribers
\* (an update of "cp", the only other request, was in the middle of its
\* fan-out to them); both are still registered and open.
C11_Witness ==
    /\ nops = 2
    /\ req["p1"].op = "update"
    /\ req["p1"].topic = "cp"
    /\ req["p1"].pc = "sending"
    /\ Cardinality(req["p1"].reg) = 2
    /\ req["p2"].op = "delete"
    /\ req["p2"].topic = "cp"
    /\ req["p2"].pc = "done"
    /\ req["p2"].result = "Forbidden"
    /\ "cp" \in DOMAIN topics
    /\ Range(Registered("cp")) = req["p1"].reg
    /\ \A h \in Handles : ~closed[h]

\* C12: updateTopic("cp", v) with v outside A, B, C, D, off fails with
\* InvalidValue before the store is touched: the store is as it was and
\* send_text is called on no websocket.
C12_InvalidValueRejected ==
    [][\A p \in Procs :
          ( /\ req[p].pc = "idle"
            /\ req'[p].op = "update"
            /\ req'[p].topic = "cp"
            /\ req'[p].value \notin {"A", "B", "C", "D", "off"}
            /\ req'[p].result # "BadRequest" )
          => /\ req'[p].pc = "done"
             /\ req'[p].result = "InvalidValue"
             /\ req'[p].log = <<>>
             /\ UNCHANGED <<topics, written, inbox, subscribers>>]_vars

\* C12 happens: an update of "cp" to "x" was refused while "cp" had two
\* subscribers (an update to "A", the only other request, was in the middle
\* of its fan-out); the store still holds "A" and nobody was sent "x".
C12_Witness ==
    /\ nops = 2
    /\ req["p1"].op = "update"
    /\ req["p1"].topic = "cp"
    /\ req["p1"].value = "A"
    /\ req["p1"].pc = "sending"
    /\ Cardinality(req["p1"].reg) = 2
    /\ req["p2"].op = "update"
    /\ req["p2"].topic = "cp"
    /\ req["p2"].value = "x"
    /\ req["p2"].pc = "done"
    /\ req["p2"].result = "InvalidValue"
    /\ topics["cp"] = "A"
    /\ \A h \in Handles : "x" \notin Range(inbox[h])

\* C13: updateTopic(n, v) for a name n absent from the store fails with
\* NotFound, leaves the store as it was (n is not created) and calls
\* send_text on no websocket.
C13_UpdateAbsentNotFound ==
    [][\A p \in Procs :
          ( /\ req[p].pc = "idle"
            /\ req'[p].op = "update"
            /\ req'[p].topic \notin DOMAIN topics
            /\ req'[p].result # "BadRequest" )
          => /\ req'[p].pc = "done"
             /\ req'[p].result = "NotFound"
             /\ req'[p].log = <<>>
             /\ UNCHANGED <<topics, written, inbox, subscribers>>]_vars

\* C13 happens: an update of "t" was refused while a delete of "t" (which
\* began with a subscriber registered) was still in its sweep, so "t" was
\* out of the store with its subscriber list still in place; "t" is still
\* absent and nothing was sent.
C13_Witness ==
    \E p, q \in Procs :
        /\ nops = 3
        /\ req[p].op = "delete"
        /\ req[p].topic = "t"
        /\ req[p].pc = "closing"
        /\ req[p].reg # {}
        /\ req[q].op = "update"
        /\ req[q].topic = "t"
        /\ req[q].pc = "done"
        /\ req[q].result = "NotFound"
        /\ "t" \notin DOMAIN topics
        /\ Registered("t") # <<>>
        /\ \A h \in Handles : inbox[h] = <<>>

\* C14: createTopic never overwrites: for a name in the store it fails with
\* AlreadyExists and the store is as it was; and of two createTopic calls in
\* flight together for the same name, absent before both (one succeeded and
\* the name was never deleted), exactly one succeeded and the value the store
\* took for the name is that call's.
C14_CreateNeverOverwrites ==
    /\ [][\A p \in Procs :
             ( /\ req[p].pc = "idle"
               /\ req'[p].op = "create"
               /\ req'[p].topic \in DOMAIN topics
               /\ req'[p].result # "BadRequest" )
             => /\ req'[p].pc = "done"
                /\ req'[p].result = "AlreadyExists"
                /\ UNCHANGED <<topics, written>>]_vars
    /\ [](\A p, q \in Procs :
             ( /\ p # q
               /\ req[p].op = "create" /\ req[q].op = "create"
               /\ req[p].pc = "done" /\ req[q].pc = "done"
               /\ req[p].topic = req[q].topic
               /\ req[q].result # "BadRequest"
               /\ req[p].result = "ok"
               /\ None \notin Range(written[req[p].topic]) )
             => /\ req[q].result = "AlreadyExists"
                /\ written[req[p].topic][1] = req[p].value
                /\ Len(written[req[p].topic]) = 1
                   => Get(topics, req[p].topic) = req[p].value)

\* C14 happens: two creates of "t" with different values are finished, the
\* first succeeded, the second failed with AlreadyExists and the store holds
\* the first one's value.
C14_Witness ==
    /\ req["p1"].op = "create" /\ req["p2"].op = "create"
    /\ req["p1"].topic = "t" /\ req["p2"].topic = "t"
    /\ req["p1"].value = "A" /\ req["p2"].value = "x"
    /\ req["p1"].result = "ok"
    /\ req["p2"].result = "AlreadyExists"
    /\ Get(topics, "t") = "A"

\* C15: for every name n not in the store, createTopic(n, v) succeeds and a
\* read of n right after it returns v; the values of all other topics and the
\* subscriber map are as they were.
C15_CreateThenRead ==
    [][\A p \in Procs, n \in Names :
          ( /\ req[p].pc = "idle"
            /\ req'[p].op = "create"
            /\ req'[p].topic = n
            /\ n \notin DOMAIN topics
            /\ req'[p].result # "BadRequest" )
          => /\ req'[p].pc = "done"
             /\ req'[p].result = "ok"
             /\ getIndividualTopic(n)' = req'[p].value
             /\ DOMAIN topics' = DOMAIN topics \cup {n}
             /\ \A m \in DOMAIN topics : topics'[m] = topics[m]
             /\ subscribers' = subscribers]_vars

\* C15 happens: "t" was created with "x" while an update of "cp" to "A" was
\* in its fan-out to two registered websockets; a read of "t" returns "x",
\* "cp" still holds "A" and both websockets are still registered.
C15_Witness ==
    /\ nops = 2
    /\ req["p1"].op = "update"
    /\ req["p1"].topic = "cp"
    /\ req["p1"].pc = "sending"
    /\ Cardinality(req["p1"].reg) = 2
    /\ req["p2"].op = "create"
    /\ req["p2"].topic = "t"
    /\ req["p2"].value = "x"
    /\ req["p2"].pc = "done"
    /\ req["p2"].result = "ok"
    /\ getIndividualTopic("t") = "x"
    /\ getIndividualTopic("cp") = "A"
    /\ Range(Registered("cp")) = req["p1"].reg

\* C16: subscribeTopic(n, h) for a name n absent from the store rejects h: the
\* connection is closed without being accepted, the subscriber map is left as
\* it was (no entry for n is created), and h is never in any subscriber list
\* afterwards.
C16_SubscribeAbsentRejected ==
    /\ [][\A h \in Handles :
             ( /\ ws[h].state = "idle"
               /\ ws'[h].state # "idle"
               /\ ws'[h].topic \notin DOMAIN topics )
             => /\ ws'[h].state = "rejected"
                /\ closed'[h]
                /\ subscribers' = subscribers]_vars
    /\ [](\A h \in Handles :
             ws[h].state = "rejected"
             => /\ closed[h]
                /\ inbox[h] = <<>>
                /\ \A n \in Names : h \notin Range(Registered(n)))

\* C16 happens: "h1" asked for "t" before "t" existed and was rejected; "t" was
\* created afterwards and "h2" subscribed to it, so the subscriber map has an
\* entry for "t" that holds "h2" only.
C16_Witness ==
    /\ ws["h1"].state = "rejected"
    /\ ws["h1"].topic = "t"
    /\ closed["h1"]
    /\ written["t"] # <<>>
    /\ None \notin Range(written["t"])
    /\ Registered("t") = <<"h2">>

\* A step of the updateTopic handler of slot p: its start, or a turn of its
\* fan-out loop.
C17_UpdateStep(p) ==
    \/ req[p].pc = "idle" /\ req'[p].op = "update"
    \/ /\ req[p].op = "update"
       /\ req[p].pc \in {"sending", "blocked"}
       /\ req'[p].log # req[p].log \/ req'[p].pc # req[p].pc

\* C17: updateTopic never changes the membership of any topic's subscriber
\* list, whatever its sends do; a websocket leaves a list only through its own
\* disconnect handling or through a deleteTopic of its topic that ends.
C17_UpdateKeepsMembership ==
    /\ [][\A p \in Procs : C17_UpdateStep(p) => subscribers' = subscribers]_vars
    /\ [][\A n \in Names, h \in Handles :
             ( /\ h \in Range(ListIn(subscribers, n))
               /\ h \notin Range(ListIn(subscribers', n)) )
             => \/ /\ ws[h].topic = n
                   /\ ws[h].state = "receiving"
                   /\ ws'[h].state = "done"
                \/ \E p \in Procs :
                      /\ req'[p].op = "delete"
                      /\ req'[p].topic = n
                      /\ req[p].pc \in {"idle", "closing"}
                      /\ req'[p].pc = "done"
                      /\ req'[p].result = "ok"]_vars

\* C17 happens: an update of "cp" has returned after its send to "h2" failed
\* and its send to "h1" went through; both are still registered, in the order
\* of their registration.
C17_Witness ==
    \E p \in Procs :
        /\ req[p].op = "update"
        /\ req[p].topic = "cp"
        /\ req[p].pc = "done"
        /\ req[p].result = "ok"
        /\ req[p].log = << [h |-> "h1", val |-> req[p].value, res |-> "ok"],
                           [h |-> "h2", val |-> req[p].value, res |-> "fail"] >>
        /\ Registered("cp") = <<"h1", "h2">>
        /\ ws["h2"].state = "receiving"
        /\ ~closed["h2"]

\* C18: deleteTopic(n) for an existing topic n other than "cp" whose subscriber
\* list is missing or empty succeeds at once: n leaves the store, no
\* missing-key error is raised, no connection is closed and the subscriber map
\* has no entry for n afterwards.
C18_DeleteWithoutSubscribers ==
    [][\A p \in Procs, n \in Names :
          ( /\ req[p].pc = "idle"
            /\ req'[p].op = "delete"
            /\ req'[p].topic = n
            /\ n # "cp"
            /\ n \in DOMAIN topics
            /\ Registered(n) = <<>> )
          => /\ req'[p].pc = "done"
             /\ req'[p].result = "ok"
             /\ n \notin DOMAIN topics'
             /\ \A m \in DOMAIN topics \ {n} :
                   m \in DOMAIN topics' /\ topics'[m] = topics[m]
             /\ n \notin DOMAIN subscribers'
             /\ closed' = closed]_vars

\* C18 happens, in the case of an entry holding an empty list: "h1" registered
\* for "t" and left, which emptied the list of "t"; the deleteTopic of "t" that
\* followed returned normally and took both entries away.
C18_Witness ==
    \E p \in Procs :
        /\ nops = 2
        /\ req[p].op = "delete"
        /\ req[p].topic = "t"
        /\ req[p].pc = "done"
        /\ req[p].result = "ok"
        /\ req[p].log = <<>>
        /\ ws["h1"].topic = "t"
        /\ ws["h1"].state = "done"
        /\ ~closed["h1"]
        /\ "t" \notin DOMAIN topics
        /\ "t" \notin DOMAIN subscribers

\* A step of the updateTopic or deleteTopic handler of slot p: its start, or a
\* turn of its loop.
C19_HandlerStep(p) ==
    \/ req[p].pc = "idle" /\ req'[p].op \in {"update", "delete"}
    \/ /\ req[p].op \in {"update", "delete"}
       /\ req[p].pc \in {"sending", "blocked", "closing"}
       /\ req'[p].log # req[p].log \/ req'[p].pc # req[p].pc

\* C19: operations on one topic do not affect another.  Every step of an
\* updateTopic or deleteTopic on topic a, in every interleaving, leaves each
\* other topic b as it was: its presence and value in the store, its
\* subscriber list, and the messages received and the close state of every
\* websocket that subscribed to b.  Every send and close such a handler issues
\* goes to a websocket that subscribed to a.
C19_TopicsIsolated ==
    /\ [][\A p \in Procs, a \in Names :
             ( C19_HandlerStep(p) /\ req'[p].topic = a )
             => \A b \in Names \ {a} :
                   /\ (b \in DOMAIN topics') = (b \in DOMAIN topics)
                   /\ Get(topics', b) = Get(topics, b)
                   /\ (b \in DOMAIN subscribers') = (b \in DOMAIN subscribers)
                   /\ ListIn(subscribers', b) = ListIn(subscribers, b)
                   /\ \A h \in Handles :
                         ws[h].topic = b
                         => inbox'[h] = inbox[h] /\ closed'[h] = closed[h]]_vars
    /\ [](\A p \in Procs :
             req[p].op \in {"update", "delete"}
             => \A i \in 1..Len(req[p].log) :
                   ws[req[p].log[i].h].topic = req[p].topic)

\* C19 happens: with "h1" registered for "cp" and "h2" for "t", an update of
\* "cp" to "A" sent "A" to "h1"; while it waited for that send, "t" was deleted
\* and "h2" closed.  "h2" has received nothing; "cp" holds "A", and "h1" is
\* still registered and open.
C19_Witness ==
    /\ nops = 3
    /\ req["p1"].op = "update"
    /\ req["p1"].topic = "cp"
    /\ req["p1"].pc = "sending"
    /\ req["p1"].log = << [h |-> "h1", val |-> "A", res |-> "ok"] >>
    /\ req["p2"].op = "delete"
    /\ req["p2"].topic = "t"
    /\ req["p2"].pc = "done"
    /\ req["p2"].result = "ok"
    /\ req["p2"].log = << [h |-> "h2", val |-> None, res |-> "ok"] >>
    /\ inbox["h1"] = <<"A">>
    /\ inbox["h2"] = <<>>
    /\ closed["h2"]
    /\ ~closed["h1"]
    /\ Registered("cp") = <<"h1">>
    /\ Get(topics, "cp") = "A"
    /\ "t" \notin DOMAIN topics

\* C20: in every reachable state, after any sequence and interleaving of
\* create, update, delete, subscribe and disconnect operations, the protected
\* topic "cp" is in the store and its value is one of A, B, C, D, off
\* (off at the start).
C20_ProtectedTopicInvariant ==
    /\ "cp" \in DOMAIN topics
    /\ topics["cp"] \in {"A", "B", "C", "D", "off"}
    /\ written["cp"][1] = "off"
    /\ None \notin Range(written["cp"])

\* C20 happens: "cp" was set to "A"; a deleteTopic of "cp" and an update of
\* "cp" to "x" have both been refused, and "cp" holds "A".
C20_Witness ==
    /\ nops = 3
    /\ written["cp"] = <<"off", "A">>
    /\ topics["cp"] = "A"
    /\ \E p \in Procs :
          /\ req[p].op = "delete"
          /\ req[p].topic = "cp"
          /\ req[p].pc = "done"
          /\ req[p].result = "Forbidden"
    /\ \E q \in Procs :
          /\ req[q].op = "update"
          /\ req[q].topic = "cp"
          /\ req[q].value = "x"
          /\ req[q].pc = "done"
          /\ req[q].result = "InvalidValue"

====
